---- MODULE Spec2Model ----
(***************************************************************************)
(* A model of the Protocolized story scrapers.                             *)
(*                                                                         *)
(*   scraper/scrape_all.py  ProtocolizedScraperEnhanced  (three sources)   *)
(*   scraper/scrape.py      ProtocolizedScraper          (tag page only)   *)
(*   scraper/generate_wordcloud.py  analyze_word_frequency                 *)
(*                                                                         *)
(* A run is main() -> scrape_all() -> discovery -> one scrape_story per    *)
(* URL -> build_index -> exit.  Strings are sequences of tokens: a URL is  *)
(* a sequence such as <<base_url, "/p/", "a", "?", "utm">>, in which the   *)
(* delimiters '?', '#' and the infix '/p/' are tokens of their own, and a  *)
(* text is a sequence of words and whitespace tokens.  SpecHelpers calls   *)
(* the helper functions on their own, outside a run.                       *)
(***************************************************************************)
EXTENDS Integers, Sequences, FiniteSets, TLC

VARIABLES
    script,             \* which program runs: "scrape_all" or "scrape"
    dry_run,            \* args.dry_run: the --dry-run flag of scrape.py
    limit,              \* self.limit: <<>> is None, <<n>> is the integer n
    retries,            \* the retries argument of scrape_story
    pc,                 \* position of the run in the code
    urls_from_archive,  \* get_all_story_urls: result of the archive source
    urls_from_tag,      \* get_all_story_urls: result of the tag source
    urls_from_sitemap,  \* get_all_story_urls: result of the sitemap source
    all_urls,           \* get_all_story_urls: the merged set
    story_urls,         \* scrape_all: the URLs in the order the loop visits them
    i,                  \* scrape_all: loop index (1-based, enumerate(.., 1))
    attempt,            \* scrape_story: loop index (0-based, range(retries))
    fetches,            \* number of session.get calls made by scrape_story
    soup,               \* scrape_story: the page parsed by the current attempt
    story_data,         \* scrape_all: what scrape_story returned (<<>> is None)
    stories,            \* scrape_all: the in-memory article list
    search_file,        \* ../docs/search-index.json on disk
    metadata_file,      \* ../docs/stories-metadata.json on disk
    exit_code,          \* process exit status (<<>> while running)
    outcome,            \* how main() ended: what it printed last
    requests,           \* session.get calls of discovery, in order
    failed_sources,     \* discovery: the sources whose request failed
    fetched,            \* URLs handed to scrape_story, in order
    log,                \* session.get / time.sleep calls since the current
                        \* scrape_story call began
    reported,           \* the lines scrape_all, scrape_story, build_index and
                        \* main printed about the results of the run, in order
    fn,                 \* the helper function called on its own ("none" in
                        \* a run of the program)
    arg,                \* its argument
    result              \* the value it returned

\* the command line of the run and the arguments of scrape_story
args == <<script, dry_run, limit, retries>>

\* the call of a helper function on its own
call == <<fn, arg, result>>

vars == <<args, call, fetches, pc, urls_from_archive, urls_from_tag,
          urls_from_sitemap, all_urls, story_urls, i, attempt, soup,
          story_data, stories, search_file, metadata_file, exit_code,
          outcome, requests,
          failed_sources, fetched, log, reported>>

(***************************************************************************)
(* Bounds of the model and constants of the program.                       *)
(***************************************************************************)
MaxLimit == 2
MaxRetries == 3

DefaultRetries == 3
BackoffDelay == 2
PacingDelay == 1
RequestTimeout == 15

base_url == "https://protocolized.summerofprotocols.com"
archive_url == <<base_url, "/archive">>
stories_tag_url == <<base_url, "/t/stories">>
sitemap_url == <<base_url, "/sitemap.xml">>

(***************************************************************************)
(* String operations of Python, on token sequences.                        *)
(***************************************************************************)
\* needle in s, for a one-token needle
Contains(s, needle) == \E k \in 1..Len(s) : s[k] = needle

\* s.split(sep)[0]: the part of s before the first occurrence of sep
SplitFirst(s, sep) ==
    IF Contains(s, sep)
    THEN SubSeq(s, 1, (CHOOSE k \in 1..Len(s) :
                          s[k] = sep /\ \A j \in 1..(k - 1) : s[j] # sep) - 1)
    ELSE s

\* the tokens whose first four characters are "http"
HttpTokens == {base_url}

\* s.startswith('http')
StartsWithHttp(s) == Len(s) > 0 /\ s[1] \in HttpTokens

\* character order of the tokens' first differing characters:
\* '#' < '/' < '?' < letters, and "/about" < "/archive" < "/p/"
TokenRank(t) ==
    CASE t = "#" -> 1
      [] t = "/about" -> 2
      [] t = "/archive" -> 3
      [] t = "/p/" -> 4
      [] t = "?" -> 5
      [] t = "a" -> 6
      [] t = "b" -> 7
      [] t = base_url -> 8
      [] t = "next=" -> 9
      [] t = "top" -> 10
      [] t = "utm" -> 11
      [] OTHER -> 12

\* u < v in Python's string order
StrLess(u, v) ==
    \/ /\ Len(u) < Len(v)
       /\ \A k \in 1..Len(u) : u[k] = v[k]
    \/ \E k \in 1..Len(u) :
          /\ k <= Len(v)
          /\ \A j \in 1..(k - 1) : u[j] = v[j]
          /\ TokenRank(u[k]) < TokenRank(v[k])

\* sorted(list(S)) for a set of strings
Sorted(S) ==
    CHOOSE f \in [1..Cardinality(S) -> S] :
        /\ \A a, b \in 1..Cardinality(S) : a < b => StrLess(f[a], f[b])

\* every order in which a set of strings can be iterated
Orders(S) ==
    {f \in [1..Cardinality(S) -> S] :
        \A a, b \in 1..Cardinality(S) : a # b => f[a] # f[b]}

(***************************************************************************)
(* Canonicalisation and the listing pages.                                 *)
(***************************************************************************)
\* a canonicalisation that puts the origin in front of every href
_make_absolute_url_AlwaysPrefix(href) ==
    SplitFirst(SplitFirst(<<base_url>> \o href, "?"), "#")

\* ProtocolizedScraperEnhanced._make_absolute_url; scrape.py does the same
\* inline in get_story_urls
_make_absolute_url(href) ==
    IF StartsWithHttp(href)
    THEN SplitFirst(SplitFirst(href, "?"), "#")
    ELSE SplitFirst(SplitFirst(<<base_url>> \o href, "?"), "#")

\* hrefs a listing page (archive, tag) can carry
ListingHrefs ==
    { <<"/p/", "a">>,
      <<"/p/", "a", "?", "utm">>,
      <<base_url, "/p/", "b", "#", "top">>,
      <<"/about", "?", "next=", "/p/", "a">>,
      <<"/archive">> }

\* <loc> texts a sitemap can carry
SitemapLocs ==
    { <<base_url, "/p/", "a">>,
      <<base_url, "/p/", "a", "?", "utm">>,
      <<base_url, "/about">> }

\* what a listing source answers: the request raises, or a page with links
NoResponse == [ok |-> FALSE, status |-> 0, links |-> {}]
ListingResponses ==
    {NoResponse} \cup
    {[ok |-> TRUE, status |-> 200, links |-> L] : L \in SUBSET ListingHrefs}
SitemapResponses ==
    {NoResponse, [ok |-> TRUE, status |-> 404, links |-> {}]} \cup
    {[ok |-> TRUE, status |-> 200, links |-> L] : L \in SUBSET SitemapLocs}

\* the links loop of _get_urls_from_archive / _get_urls_from_tag /
\* get_story_urls: keep the hrefs holding '/p/', canonicalised.  (The
\* archive's extra guard "href not in urls" only skips an href that is
\* already in the set as its own canonical form.)
LinksToUrls(links) ==
    {_make_absolute_url(href) : href \in {h \in links : Contains(h, "/p/")}}

_get_urls_from_archive(resp) ==
    IF resp.ok THEN LinksToUrls(resp.links) ELSE {}

_get_urls_from_tag(resp) ==
    IF resp.ok THEN LinksToUrls(resp.links) ELSE {}

\* the sitemap's <loc> texts are added as they are
_get_urls_from_sitemap(resp) ==
    IF resp.ok /\ resp.status = 200
    THEN {url \in resp.links : Contains(url, "/p/")}
    ELSE {}

\* scrape.py: the tag page alone, as a sorted list
get_story_urls(resp) ==
    IF resp.ok THEN Sorted(LinksToUrls(resp.links)) ELSE <<>>

(***************************************************************************)
(* Texts and the extraction of one fetched page.                           *)
(***************************************************************************)
Whitespace == {" ", "\n", "\t"}

RECURSIVE TextLen(_)
\* len(text): the characters of all tokens
TextLen(text) ==
    IF text = <<>> THEN 0 ELSE Len(Head(text)) + TextLen(Tail(text))

RECURSIVE LStrip(_)
LStrip(text) ==
    IF text # <<>> /\ Head(text) \in Whitespace THEN LStrip(Tail(text)) ELSE text

RECURSIVE RStrip(_)
RStrip(text) ==
    IF text # <<>> /\ text[Len(text)] \in Whitespace
    THEN RStrip(SubSeq(text, 1, Len(text) - 1))
    ELSE text

\* get_text(strip=True) of an element holding one string; str.strip()
Strip(text) == RStrip(LStrip(text))

\* len(text.split()): the maximal runs of non-whitespace tokens
SplitCount(text) ==
    Cardinality({k \in 1..Len(text) :
        /\ text[k] \notin Whitespace
        /\ (k = 1 \/ text[k - 1] \in Whitespace)})

\* str.lower() of one token
LowerToken(t) ==
    CASE t = "Subscribe" -> "subscribe"
      [] t = "Now" -> "now"
      [] t = "Sign" -> "sign"
      [] t = "In" -> "in"
      [] t = "Share" -> "share"
      [] t = "Norms" -> "norms"
      [] t = "The" -> "the"
      [] t = "This" -> "this"
      [] OTHER -> t

\* text.lower()
Lower(text) == [k \in 1..Len(text) |-> LowerToken(text[k])]

\* phrase in text
IsInfix(phrase, text) ==
    \E k \in 0..(Len(text) - Len(phrase)) :
        \A j \in 1..Len(phrase) : text[k + j] = phrase[j]

boilerplate_phrases ==
    { <<"subscribe", " ", "now">>,
      <<"share", " ", "this", " ", "post">>,
      <<"leave", " ", "a", " ", "comment">>,
      <<"get", " ", "20%", " ", "off">>,
      <<"upgrade", " ", "to", " ", "paid">>,
      <<"become", " ", "a", " ", "subscriber">>,
      <<"already", " ", "a", " ", "subscriber">>,
      <<"sign", " ", "in">>,
      <<"this", " ", "post", " ", "is", " ", "for">>,
      <<"give", " ", "a", " ", "gift", " ", "subscription">> }

MinParagraphChars == 20
MinParagraphWords == 5

\* a classifier that looks for the phrases without lowering the text
_is_valid_paragraph_CaseSensitive(text) ==
    IF TextLen(text) < MinParagraphChars THEN FALSE
    ELSE IF \E phrase \in boilerplate_phrases : IsInfix(phrase, text)
    THEN FALSE
    ELSE IF SplitCount(text) < MinParagraphWords THEN FALSE
    ELSE TRUE

_is_valid_paragraph(text) ==
    IF TextLen(text) < MinParagraphChars THEN FALSE
    ELSE IF \E phrase \in boilerplate_phrases : IsInfix(phrase, Lower(text))
    THEN FALSE
    ELSE IF SplitCount(text) < MinParagraphWords THEN FALSE
    ELSE TRUE

\* the selector lists of the two classes: scrape_all.py has one more title
\* selector and one more subtitle selector than scrape.py
TitleSelectors(scr) == IF scr = "scrape_all" THEN 5 ELSE 4
SubtitleSelectors(scr) == IF scr = "scrape_all" THEN 4 ELSE 3

\* the selector loop of _extract_title and _extract_subtitle: elems[k] is
\* <<>> when selector k matches nothing, else <<text of the first match>>
FirstMatch(elems, n) ==
    IF \E k \in 1..n : elems[k] # <<>>
    THEN Strip(elems[CHOOSE k \in 1..n :
                   elems[k] # <<>> /\ \A j \in 1..(k - 1) : elems[j] = <<>>][1])
    ELSE <<>>

_extract_title(scr, page) == FirstMatch(page.title_elems, TitleSelectors(scr))

_extract_subtitle(scr, page) ==
    FirstMatch(page.subtitle_elems, SubtitleSelectors(scr))

MaxAuthorChars == 100
MaxAuthors == 3
MaxTagChars == 50
MaxTags == 5
DatePrefix == 10

RECURSIVE KeptTexts(_, _, _, _)
\* the loops of _extract_author and _extract_tags: the stripped texts, in
\* order, that are non-empty, new, shorter than maxChars and not banned
KeptTexts(elems, kept, maxChars, banned) ==
    IF elems = <<>> THEN kept
    ELSE LET text == Strip(Head(elems))
             keep == /\ text # <<>>
                     /\ \A k \in 1..Len(kept) : kept[k] # text
                     /\ TextLen(text) < maxChars
                     /\ ~ \E b \in banned : Contains(Lower(text), b)
         IN  KeptTexts(Tail(elems), IF keep THEN Append(kept, text) ELSE kept,
                       maxChars, banned)

\* a slice that keeps the whole sequence
Take_All(seq, n) == seq

\* seq[:n]
Take(seq, n) == SubSeq(seq, 1, IF Len(seq) < n THEN Len(seq) ELSE n)

RECURSIVE Join(_, _)
\* sep.join(texts)
Join(sep, texts) ==
    IF texts = <<>> THEN <<>>
    ELSE IF Len(texts) = 1 THEN Head(texts)
    ELSE Head(texts) \o sep \o Join(sep, Tail(texts))

_extract_author(scr, page) ==
    LET authors == KeptTexts(page.author_elems, <<>>, MaxAuthorChars,
                             IF scr = "scrape_all" THEN {"subscribe"} ELSE {})
    IN  IF authors # <<>>
        THEN Join(<<",", " ">>, Take(authors, MaxAuthors))
        ELSE <<"Unknown">>

\* page.datetime is <<>> without a <time datetime=..>, else <<characters>>
_extract_date(page) ==
    IF page.datetime # <<>> /\ page.datetime[1] # <<>>
    THEN LET date_str == page.datetime[1]
         IN  IF Len(date_str) >= DatePrefix
             THEN SubSeq(date_str, 1, DatePrefix)
             ELSE date_str
    ELSE <<>>

\* a tag extraction that returns every tag it kept
_extract_tags_Uncapped(page) == KeptTexts(page.tag_elems, <<>>, MaxTagChars, {})

_extract_tags(page) ==
    Take(KeptTexts(page.tag_elems, <<>>, MaxTagChars, {}), MaxTags)

\* page.containers[k] is <<>> when container rule k finds nothing, else
\* <<texts of its <p> elements>>; the rules are article, div.body,
\* div.post-content, div with a class matching content|body|post
ContainerRules == 4

_extract_content(page) ==
    IF \A k \in 1..ContainerRules : page.containers[k] = <<>>
    THEN <<>>
    ELSE LET article ==
                 page.containers[CHOOSE k \in 1..ContainerRules :
                     /\ page.containers[k] # <<>>
                     /\ \A j \in 1..(k - 1) : page.containers[j] = <<>>][1]
             texts == [k \in 1..Len(article) |-> Strip(article[k])]
         IN  SelectSeq(texts, _is_valid_paragraph)

(***************************************************************************)
(* The pages a story URL can answer with.                                  *)
(***************************************************************************)
ParaReal ==
    <<"Protocols", " ", "shape", " ", "how", " ", "strangers", " ", "cooperate">>
ParaPromo ==
    <<"Subscribe", " ", "now", " ", "to", " ", "get", " ", "full", " ", "access">>
ParaShort == <<"Read", " ", "more">>
Timestamp ==
    <<"2", "0", "2", "4", "-", "0", "1", "-", "1", "5", "T", "0", "9", ":",
      "3", "0", "Z">>

NoSoup ==
    [title_elems |-> << <<>>, <<>>, <<>>, <<>>, <<>> >>,
     subtitle_elems |-> << <<>>, <<>>, <<>>, <<>> >>,
     author_elems |-> <<>>,
     datetime |-> <<>>,
     tag_elems |-> <<>>,
     containers |-> << <<>>, <<>>, <<>>, <<>> >>]

\* a story page of the expected template
ValidSoup ==
    [title_elems |-> << <<>>, <<>>, <<>>, << <<" ", "Norms", "\n">> >>, <<>> >>,
     subtitle_elems |-> << <<>>, << <<"On", " ", "rules">> >>, <<>>, <<>> >>,
     author_elems |-> << <<"Ada">>, <<"Ada">>, <<"Subscribe">> >>,
     datetime |-> << Timestamp >>,
     tag_elems |-> << <<"stories">>, <<"stories">>, <<>> >>,
     containers |-> << << <<ParaReal, ParaPromo, ParaShort>> >>, <<>>, <<>>, <<>> >>]

\* a page without any heading the title selectors match
NoTitleSoup == [ValidSoup EXCEPT !.title_elems = NoSoup.title_elems]

\* a page whose only container holds boilerplate
NoContentSoup ==
    [ValidSoup EXCEPT !.containers =
        << <<>>, <<>>, << <<ParaPromo, ParaShort>> >>, <<>> >>]

Soups == {ValidSoup, NoTitleSoup, NoContentSoup}

\* what session.get + raise_for_status + BeautifulSoup give for a story URL:
\* an exception (transport error, bad status, timeout, parser error), or a
\* parsed page
StoryResponses ==
    {[ok |-> FALSE, page |-> NoSoup]} \cup {[ok |-> TRUE, page |-> s] : s \in Soups}

\* an extraction that returns the record without looking at title and content
ExtractStory_Unchecked(scr, url, page) ==
    << [title |-> _extract_title(scr, page),
        subtitle |-> _extract_subtitle(scr, page),
        author |-> _extract_author(scr, page), url |-> url,
        date |-> _extract_date(page), tags |-> _extract_tags(page),
        content |-> _extract_content(page)] >>

\* scrape_story, lines 200-219: the extracted record, <<>> for None
ExtractStory(scr, url, page) ==
    LET title == _extract_title(scr, page)
        subtitle == _extract_subtitle(scr, page)
        author == _extract_author(scr, page)
        date == _extract_date(page)
        tags == _extract_tags(page)
        content == _extract_content(page)
    IN  IF title = <<>> \/ content = <<>>
        THEN <<>>
        ELSE << [title |-> title, subtitle |-> subtitle, author |-> author,
                 url |-> url, date |-> date, tags |-> tags,
                 content |-> content] >>

\* a retry loop that also sleeps after its last attempt
ShouldBackoff_AfterLast(att, n) == att < n

\* scrape_story, "if attempt < retries - 1": sleep before the next attempt
ShouldBackoff(att, n) == att < n - 1

(***************************************************************************)
(* build_index: the two record lists.                                      *)
(***************************************************************************)
RECURSIVE SumSeq(_)
SumSeq(ns) == IF ns = <<>> THEN 0 ELSE Head(ns) + SumSeq(Tail(ns))

\* a word count that counts the paragraphs
WordCount_Paragraphs(content) == Len(content)

\* sum(len(p.split()) for p in story['content'])
WordCount(content) == SumSeq([k \in 1..Len(content) |-> SplitCount(content[k])])

\* ids counted from 1
RecordId_OneBased(k) == k

\* enumerate(stories): position k of the list carries id k - 1
RecordId(k) == k - 1

SearchIndex(sts) ==
    [k \in 1..Len(sts) |->
        [id |-> RecordId(k), title |-> sts[k].title, subtitle |-> sts[k].subtitle,
         author |-> sts[k].author, content |-> sts[k].content,
         tags |-> sts[k].tags]]

Metadata(sts) ==
    [k \in 1..Len(sts) |->
        [id |-> RecordId(k), title |-> sts[k].title, subtitle |-> sts[k].subtitle,
         url |-> sts[k].url, author |-> sts[k].author, date |-> sts[k].date,
         wordCount |-> WordCount(sts[k].content), tags |-> sts[k].tags]]

\* a file on disk: what the previous run left, an opened and not yet
\* completely written file, or the records json.dump wrote
PreviousFile == [state |-> "previous", records |-> <<>>]
TruncatedFile == [state |-> "truncated", records |-> <<>>]
WrittenFile(records) == [state |-> "written", records |-> records]

(***************************************************************************)
(* The run.                                                                *)
(***************************************************************************)
Scripts == {"scrape_all", "scrape"}
Limits == {<<>>} \cup {<<n>> : n \in 0..MaxLimit}

\* the sources that failed so far, after a request to url
Failed(url, ok) == IF ok THEN failed_sources ELSE failed_sources \cup {url}
GetCall(url, ok) == [op |-> "get", url |-> url, secs |-> RequestTimeout, ok |-> ok]
SleepCall(secs) == [op |-> "sleep", url |-> <<>>, secs |-> secs, ok |-> TRUE]

\* one line of output: its kind and the number it carries (0 if none)
Line(msg, n) == [msg |-> msg, n |-> n]

\* the lines of kind msg among the reported ones
Lines(msg) == SelectSeq(reported, LAMBDA l : l.msg = msg)

\* the command lines: only scrape.py's parser knows --dry-run
DryRuns(scr) == IF scr = "scrape" THEN BOOLEAN ELSE {FALSE}

InitWith(retrySet) ==
    /\ script \in Scripts
    /\ dry_run \in DryRuns(script)
    /\ limit \in Limits
    /\ retries \in retrySet
    /\ pc = "main"
    /\ urls_from_archive = {}
    /\ urls_from_tag = {}
    /\ urls_from_sitemap = {}
    /\ all_urls = {}
    /\ story_urls = <<>>
    /\ i = 0
    /\ attempt = 0
    /\ fetches = 0
    /\ soup = NoSoup
    /\ story_data = <<>>
    /\ stories = <<>>
    /\ search_file = PreviousFile
    /\ metadata_file = PreviousFile
    /\ exit_code = <<>>
    /\ outcome = "running"
    /\ requests = <<>>
    /\ failed_sources = {}
    /\ fetched = <<>>
    /\ log = <<>>
    /\ reported = <<>>
    /\ fn = "none"
    /\ arg = <<>>
    /\ result = <<>>

\* scrape_all() calls scrape_story(url): retries takes its default
Init == InitWith({DefaultRetries})

\* main() up to the first request of discovery
StartRun ==
    /\ pc = "main"
    /\ pc' = IF script = "scrape_all" THEN "get_archive" ELSE "get_story_urls"
    /\ UNCHANGED <<reported, failed_sources, args, call, fetches,
                   urls_from_archive, urls_from_tag, urls_from_sitemap,
                   all_urls, story_urls, i, attempt, soup, story_data,
                   stories, search_file, metadata_file, exit_code, outcome,
                   requests, fetched, log>>

\* a discovery that returns after its first source
GetUrlsFromArchive_Only ==
    /\ pc = "get_archive"
    /\ \E resp \in ListingResponses :
          /\ urls_from_archive' = _get_urls_from_archive(resp)
          /\ all_urls' = all_urls \cup _get_urls_from_archive(resp)
          /\ failed_sources' = Failed(archive_url, resp.ok)
    /\ requests' = Append(requests, archive_url)
    /\ pc' = "discovered"
    /\ UNCHANGED <<reported, args, call, fetches, urls_from_tag, urls_from_sitemap,
                   story_urls, i, attempt, soup, story_data, stories, search_file,
                   metadata_file, exit_code, outcome, fetched, log>>

\* a discovery that queries the archive again when the request failed
GetUrlsFromArchive_RetryOnFailure ==
    /\ pc = "get_archive"
    /\ \E resp \in ListingResponses :
          /\ urls_from_archive' = _get_urls_from_archive(resp)
          /\ all_urls' = all_urls \cup _get_urls_from_archive(resp)
          /\ failed_sources' = Failed(archive_url, resp.ok)
          /\ pc' = IF resp.ok THEN "get_tag" ELSE "get_archive"
    /\ requests' = Append(requests, archive_url)
    /\ Len(requests) < MaxRetries
    /\ UNCHANGED <<reported, args, call, fetches, urls_from_tag, urls_from_sitemap,
                   story_urls, i, attempt, soup, story_data, stories, search_file,
                   metadata_file, exit_code, outcome, fetched, log>>

\* get_all_story_urls, approach 1
GetUrlsFromArchive ==
    /\ pc = "get_archive"
    /\ \E resp \in ListingResponses :
          /\ urls_from_archive' = _get_urls_from_archive(resp)
          /\ all_urls' = all_urls \cup _get_urls_from_archive(resp)
          /\ failed_sources' = Failed(archive_url, resp.ok)
    /\ requests' = Append(requests, archive_url)
    /\ pc' = "get_tag"
    /\ UNCHANGED <<reported, args, call, fetches, urls_from_tag, urls_from_sitemap,
                   story_urls, i, attempt, soup, story_data, stories, search_file,
                   metadata_file, exit_code, outcome, fetched, log>>

\* a merge that assigns the tag page's URLs instead of adding them
GetUrlsFromTag_Overwrite ==
    /\ pc = "get_tag"
    /\ \E resp \in ListingResponses :
          /\ urls_from_tag' = _get_urls_from_tag(resp)
          /\ all_urls' = _get_urls_from_tag(resp)
          /\ failed_sources' = Failed(stories_tag_url, resp.ok)
    /\ requests' = Append(requests, stories_tag_url)
    /\ pc' = "get_sitemap"
    /\ UNCHANGED <<reported, args, call, fetches, urls_from_archive, urls_from_sitemap,
                   story_urls, i, attempt, soup, story_data, stories,
                   search_file, metadata_file, exit_code, outcome, fetched, log>>

\* get_all_story_urls, approach 2
GetUrlsFromTag ==
    /\ pc = "get_tag"
    /\ \E resp \in ListingResponses :
          /\ urls_from_tag' = _get_urls_from_tag(resp)
          /\ all_urls' = all_urls \cup _get_urls_from_tag(resp)
          /\ failed_sources' = Failed(stories_tag_url, resp.ok)
    /\ requests' = Append(requests, stories_tag_url)
    /\ pc' = "get_sitemap"
    /\ UNCHANGED <<reported, args, call, fetches, urls_from_archive, urls_from_sitemap,
                   story_urls, i, attempt, soup, story_data, stories, search_file,
                   metadata_file, exit_code, outcome, fetched, log>>

\* get_all_story_urls, approach 3, and its return
GetUrlsFromSitemap ==
    /\ pc = "get_sitemap"
    /\ \E resp \in SitemapResponses :
          /\ urls_from_sitemap' = _get_urls_from_sitemap(resp)
          /\ all_urls' = all_urls \cup _get_urls_from_sitemap(resp)
          /\ failed_sources' = Failed(sitemap_url, resp.ok /\ resp.status = 200)
    /\ requests' = Append(requests, sitemap_url)
    /\ pc' = "discovered"
    /\ UNCHANGED <<reported, args, call, fetches, urls_from_archive, urls_from_tag,
                   story_urls, i, attempt, soup, story_data, stories, search_file,
                   metadata_file, exit_code, outcome, fetched, log>>

\* scrape.py: get_story_urls; all_urls holds links_found
GetStoryUrls ==
    /\ pc = "get_story_urls"
    /\ \E resp \in ListingResponses :
          /\ story_urls' = get_story_urls(resp)
          /\ all_urls' = IF resp.ok THEN LinksToUrls(resp.links) ELSE {}
          /\ failed_sources' = Failed(stories_tag_url, resp.ok)
    /\ requests' = Append(requests, stories_tag_url)
    /\ pc' = "discovered"
    /\ UNCHANGED <<reported, args, call, fetches, urls_from_archive, urls_from_tag,
                   urls_from_sitemap, i, attempt, soup, story_data, stories,
                   search_file, metadata_file, exit_code, outcome, fetched, log>>

\* "if self.limit: story_urls = list(story_urls)[:self.limit]"
ApplyLimit(urls, lim) ==
    IF lim # <<>> /\ lim[1] # 0 THEN Take(urls, lim[1]) ELSE urls

\* the orders in which the loop of scrape_all can visit the discovered URLs:
\* scrape_all.py iterates a set of strings, scrape.py a sorted list
VisitOrders(scr, urlSet, urlList) ==
    IF scr = "scrape_all" THEN Orders(urlSet) ELSE {urlList}

\* scrape_all: "Found n stories" and, under a limit, "Limiting to n stories"
FoundLines(n, lim) ==
    <<Line("Found", n)>> \o
    (IF lim # <<>> /\ lim[1] # 0 THEN <<Line("Limiting to", lim[1])>> ELSE <<>>)

\* scrape_all, from the return of discovery to the head of the loop
BeginScrape ==
    /\ pc = "discovered"
    /\ IF all_urls = {}
       THEN /\ pc' = "main_return"
            /\ reported' = Append(reported, Line("No stories found", 0))
            /\ UNCHANGED <<story_urls, i>>
       ELSE /\ \E order \in VisitOrders(script, all_urls, story_urls) :
                  story_urls' = ApplyLimit(order, limit)
            /\ reported' = reported \o FoundLines(Cardinality(all_urls), limit)
            /\ i' = 1
            /\ pc' = "scrape_story"
    /\ urls_from_archive' = {}
    /\ urls_from_tag' = {}
    /\ urls_from_sitemap' = {}
    /\ failed_sources' = {}
    /\ UNCHANGED <<all_urls, args, call, fetches, attempt, soup, story_data, stories,
                   search_file, metadata_file, exit_code, outcome, requests,
                   fetched, log>>

\* a retry loop that does not count its attempts
ScrapeStory_NoAttemptCount ==
    /\ pc = "scrape_story"
    /\ \E resp \in StoryResponses :
          LET url == story_urls[i]
              calls == (IF attempt = 0 THEN <<>> ELSE log)
                           \o <<GetCall(url, resp.ok)>>
          IN  IF resp.ok
              THEN /\ soup' = resp.page
                   /\ story_data' = ExtractStory(script, url, resp.page)
                   /\ log' = calls
                   /\ pc' = "story_returned"
                   /\ UNCHANGED <<attempt, reported>>
              ELSE IF ShouldBackoff(attempt, retries)
              THEN /\ log' = Append(calls, SleepCall(BackoffDelay))
                   /\ attempt' = attempt
                   /\ soup' = NoSoup
                   /\ story_data' = <<>>
                   /\ pc' = IF attempt + 1 < retries
                            THEN "scrape_story" ELSE "story_returned"
                   /\ UNCHANGED reported
              ELSE /\ soup' = NoSoup
                   /\ story_data' = <<>>
                   /\ log' = calls
                   /\ pc' = "story_returned"
                   /\ reported' = Append(reported, Line("Failed after", retries))
                   /\ UNCHANGED attempt
    /\ fetches' = fetches + 1
    /\ fetched' = IF attempt = 0 THEN Append(fetched, story_urls[i]) ELSE fetched
    /\ UNCHANGED <<failed_sources, args, call, urls_from_archive, urls_from_tag,
                   urls_from_sitemap, all_urls, story_urls, i, stories,
                   search_file, metadata_file, exit_code, outcome, requests>>

\* a retry loop that treats a page without title or content as a failed
\* attempt
ScrapeStory_RetryInvalid ==
    /\ pc = "scrape_story"
    /\ \E resp \in StoryResponses :
          LET url == story_urls[i]
              calls == (IF attempt = 0 THEN <<>> ELSE log)
                           \o <<GetCall(url, resp.ok)>>
          IN  IF resp.ok /\ (ExtractStory(script, url, resp.page) # <<>>
                              \/ ~ShouldBackoff(attempt, retries))
              THEN /\ soup' = resp.page
                   /\ story_data' = ExtractStory(script, url, resp.page)
                   /\ log' = calls
                   /\ pc' = "story_returned"
                   /\ UNCHANGED <<attempt, reported>>
              ELSE IF ShouldBackoff(attempt, retries)
              THEN /\ log' = Append(calls, SleepCall(BackoffDelay))
                   /\ attempt' = attempt + 1
                   /\ soup' = NoSoup
                   /\ story_data' = <<>>
                   /\ pc' = IF attempt + 1 < retries
                            THEN "scrape_story" ELSE "story_returned"
                   /\ UNCHANGED reported
              ELSE /\ soup' = NoSoup
                   /\ story_data' = <<>>
                   /\ log' = calls
                   /\ pc' = "story_returned"
                   /\ reported' = Append(reported, Line("Failed after", retries))
                   /\ UNCHANGED attempt
    /\ fetches' = fetches + 1
    /\ fetched' = IF attempt = 0 THEN Append(fetched, story_urls[i]) ELSE fetched
    /\ UNCHANGED <<failed_sources, args, call, urls_from_archive, urls_from_tag,
                   urls_from_sitemap, all_urls, story_urls, i, stories,
                   search_file, metadata_file, exit_code, outcome, requests>>

\* one pass of the retry loop of scrape_story(story_urls[i])
ScrapeStory ==
    /\ pc = "scrape_story"
    /\ \E resp \in StoryResponses :
          LET url == story_urls[i]
              calls == (IF attempt = 0 THEN <<>> ELSE log)
                           \o <<GetCall(url, resp.ok)>>
          IN  IF resp.ok
              THEN /\ soup' = resp.page
                   /\ story_data' = ExtractStory(script, url, resp.page)
                   /\ log' = calls
                   /\ pc' = "story_returned"
                   /\ UNCHANGED <<attempt, reported>>
              ELSE IF ShouldBackoff(attempt, retries)
              THEN /\ log' = Append(calls, SleepCall(BackoffDelay))
                   /\ attempt' = attempt + 1
                   /\ soup' = NoSoup
                   /\ story_data' = <<>>
                   /\ pc' = IF attempt + 1 < retries
                            THEN "scrape_story" ELSE "story_returned"
                   /\ UNCHANGED reported
              ELSE /\ soup' = NoSoup
                   /\ story_data' = <<>>
                   /\ log' = calls
                   /\ pc' = "story_returned"
                   /\ reported' = Append(reported, Line("Failed after", retries))
                   /\ UNCHANGED attempt
    /\ fetches' = fetches + 1
    /\ fetched' = IF attempt = 0 THEN Append(fetched, story_urls[i]) ELSE fetched
    /\ UNCHANGED <<failed_sources, args, call, urls_from_archive, urls_from_tag,
                   urls_from_sitemap, all_urls, story_urls, i, stories,
                   search_file, metadata_file, exit_code, outcome, requests>>

\* scrape_all: "if story_data: .. else: print(Failed to scrape)"
ResultLine(data) ==
    IF data # <<>> THEN Line("Successfully scraped:", 0)
    ELSE Line("Failed to scrape", 0)

\* a loop that also paces after its last URL
ShouldPace_AfterLast(k, n) == k <= n

\* scrape_all: "if i < len(story_urls): time.sleep(1)"
ShouldPace(k, n) == k < n

\* a loop that stops at the first URL that yields no article
LoopTail_BreakOnFailure ==
    /\ pc = "story_returned"
    /\ stories' = IF story_data # <<>> THEN Append(stories, story_data[1])
                  ELSE stories
    /\ log' = IF ShouldPace(i, Len(story_urls)) /\ story_data # <<>>
              THEN Append(log, SleepCall(PacingDelay)) ELSE log
    /\ IF i < Len(story_urls) /\ story_data # <<>>
       THEN /\ i' = i + 1
            /\ pc' = "scrape_story"
            /\ reported' = Append(reported, ResultLine(story_data))
       ELSE /\ pc' = "build_index"
            /\ reported' = reported \o <<ResultLine(story_data),
                                         Line("Successfully scraped", Len(stories'))>>
            /\ UNCHANGED i
    /\ attempt' = 0
    /\ soup' = NoSoup
    /\ story_data' = <<>>
    /\ UNCHANGED <<failed_sources, args, call, fetches, urls_from_archive,
                   urls_from_tag, urls_from_sitemap, all_urls, story_urls,
                   search_file, metadata_file, exit_code, outcome, requests,
                   fetched>>

\* a loop that keeps a placeholder for a URL that yielded no article
LoopTail_KeepPlaceholder ==
    /\ pc = "story_returned"
    /\ stories' = IF story_data # <<>> THEN Append(stories, story_data[1])
                  ELSE Append(stories, ExtractStory_Unchecked(script,
                                           story_urls[i], soup)[1])
    /\ log' = IF ShouldPace(i, Len(story_urls))
              THEN Append(log, SleepCall(PacingDelay)) ELSE log
    /\ IF i < Len(story_urls)
       THEN /\ i' = i + 1
            /\ pc' = "scrape_story"
            /\ reported' = Append(reported, ResultLine(story_data))
       ELSE /\ pc' = "build_index"
            /\ reported' = reported \o <<ResultLine(story_data),
                                         Line("Successfully scraped", Len(stories'))>>
            /\ UNCHANGED i
    /\ attempt' = 0
    /\ soup' = NoSoup
    /\ story_data' = <<>>
    /\ UNCHANGED <<failed_sources, args, call, fetches, urls_from_archive, urls_from_tag,
                   urls_from_sitemap, all_urls, story_urls, search_file,
                   metadata_file, exit_code, outcome, requests, fetched>>

\* scrape_all: the rest of the loop body after scrape_story returned
LoopTail ==
    /\ pc = "story_returned"
    /\ stories' = IF story_data # <<>> THEN Append(stories, story_data[1])
                  ELSE stories
    /\ log' = IF ShouldPace(i, Len(story_urls))
              THEN Append(log, SleepCall(PacingDelay)) ELSE log
    /\ IF i < Len(story_urls)
       THEN /\ i' = i + 1
            /\ pc' = "scrape_story"
            /\ reported' = Append(reported, ResultLine(story_data))
       ELSE /\ pc' = "build_index"
            /\ reported' = reported \o <<ResultLine(story_data),
                                         Line("Successfully scraped", Len(stories'))>>
            /\ UNCHANGED i
    /\ attempt' = 0
    /\ soup' = NoSoup
    /\ story_data' = <<>>
    /\ UNCHANGED <<failed_sources, args, call, fetches, urls_from_archive, urls_from_tag,
                   urls_from_sitemap, all_urls, story_urls, search_file,
                   metadata_file, exit_code, outcome, requests, fetched>>

\* main(): "except Exception": Fatal error, sys.exit(1)
FatalExit ==
    /\ pc' = "exit"
    /\ exit_code' = <<1>>
    /\ outcome' = "fatal"
    /\ reported' = Append(reported, Line("Fatal error", 0))

\* build_index: the record lists are built, then open(index_path, 'w')
OpenIndex ==
    /\ pc = "build_index"
    /\ \/ /\ search_file' = TruncatedFile
          /\ pc' = "dump_index"
          /\ UNCHANGED <<exit_code, outcome, reported>>
       \/ /\ FatalExit
          /\ UNCHANGED search_file
    /\ UNCHANGED <<failed_sources, args, call, fetches, urls_from_archive, urls_from_tag,
                   urls_from_sitemap, all_urls, story_urls, i, attempt,
                   soup, story_data, stories, metadata_file, requests, fetched, log>>

\* build_index: json.dump(search_index, f, ..) and the close of the file
DumpIndex ==
    /\ pc = "dump_index"
    /\ \/ /\ search_file' = WrittenFile(SearchIndex(stories))
          /\ pc' = "open_metadata"
          /\ UNCHANGED <<exit_code, outcome, reported>>
       \/ /\ FatalExit
          /\ UNCHANGED search_file
    /\ UNCHANGED <<failed_sources, args, call, fetches, urls_from_archive, urls_from_tag,
                   urls_from_sitemap, all_urls, story_urls, i, attempt,
                   soup, story_data, stories, metadata_file, requests, fetched, log>>

\* build_index: open(metadata_path, 'w')
OpenMetadata ==
    /\ pc = "open_metadata"
    /\ \/ /\ metadata_file' = TruncatedFile
          /\ pc' = "dump_metadata"
          /\ UNCHANGED <<exit_code, outcome, reported>>
       \/ /\ FatalExit
          /\ UNCHANGED metadata_file
    /\ UNCHANGED <<failed_sources, args, call, fetches, urls_from_archive, urls_from_tag,
                   urls_from_sitemap, all_urls, story_urls, i, attempt,
                   soup, story_data, stories, search_file, requests, fetched, log>>

\* build_index: json.dump(metadata, f, ..) and the close of the file
DumpMetadata ==
    /\ pc = "dump_metadata"
    /\ \/ /\ metadata_file' = WrittenFile(Metadata(stories))
          /\ pc' = "index_stats"
          /\ UNCHANGED <<exit_code, outcome, reported>>
       \/ /\ FatalExit
          /\ UNCHANGED metadata_file
    /\ UNCHANGED <<failed_sources, args, call, fetches, urls_from_archive, urls_from_tag,
                   urls_from_sitemap, all_urls, story_urls, i, attempt,
                   soup, story_data, stories, search_file, requests, fetched, log>>

\* build_index: the statistics; scrape.py prints the number of stories and
\* then divides by it unguarded, and main() catches the ZeroDivisionError
IndexStats ==
    /\ pc = "index_stats"
    /\ IF script = "scrape" /\ Len(stories) = 0
       THEN /\ pc' = "exit"
            /\ exit_code' = <<1>>
            /\ outcome' = "fatal"
            /\ reported' = reported \o <<Line("Stories:", 0),
                                         Line("Fatal error", 0)>>
       ELSE /\ pc' = "main_return"
            /\ reported' = Append(reported, Line("Stories:", Len(stories)))
            /\ UNCHANGED <<exit_code, outcome>>
    /\ UNCHANGED <<failed_sources, args, call, fetches, urls_from_archive, urls_from_tag,
                   urls_from_sitemap, all_urls, story_urls, i, attempt,
                   soup, story_data, stories, search_file, metadata_file, requests,
                   fetched, log>>

\* a main() that reports success whatever scrape_all returned
MainReturn_ExitZero ==
    /\ pc = "main_return"
    /\ pc' = "exit"
    /\ exit_code' = <<0>>
    /\ outcome' = "success"
    /\ reported' = Append(reported, Line("Success! Scraped", Len(stories)))
    /\ UNCHANGED <<failed_sources, args, call, fetches, urls_from_archive,
                   urls_from_tag, urls_from_sitemap, all_urls, story_urls, i,
                   attempt, soup, story_data, stories, search_file,
                   metadata_file, requests, fetched, log>>

\* a main() that reports failure whatever scrape_all returned
MainReturn_ExitOne ==
    /\ pc = "main_return"
    /\ pc' = "exit"
    /\ exit_code' = <<1>>
    /\ outcome' = "no_stories"
    /\ reported' = Append(reported, Line("No stories were scraped", 0))
    /\ UNCHANGED <<failed_sources, args, call, fetches, urls_from_archive,
                   urls_from_tag, urls_from_sitemap, all_urls, story_urls, i,
                   attempt, soup, story_data, stories, search_file,
                   metadata_file, requests, fetched, log>>

\* main(): "if stories: .. else: sys.exit(1)"
MainReturn ==
    /\ pc = "main_return"
    /\ pc' = "exit"
    /\ IF stories # <<>>
       THEN /\ exit_code' = <<0>>
            /\ outcome' = "success"
            /\ reported' = Append(reported, Line("Success! Scraped", Len(stories)))
       ELSE /\ exit_code' = <<1>>
            /\ outcome' = "no_stories"
            /\ reported' = Append(reported, Line("No stories were scraped", 0))
    /\ UNCHANGED <<failed_sources, args, call, fetches, urls_from_archive, urls_from_tag,
                   urls_from_sitemap, all_urls, story_urls, i, attempt,
                   soup, story_data, stories, search_file, metadata_file, requests,
                   fetched, log>>

\* main(): "except KeyboardInterrupt": the user interrupts the process
Interrupt ==
    /\ pc \notin {"exit"}
    /\ pc' = "exit"
    /\ exit_code' = <<1>>
    /\ outcome' = "interrupted"
    /\ reported' = Append(reported, Line("Interrupted by user", 0))
    /\ UNCHANGED <<failed_sources, args, call, fetches, urls_from_archive, urls_from_tag,
                   urls_from_sitemap, all_urls, story_urls, i, attempt,
                   soup, story_data, stories, search_file, metadata_file, requests,
                   fetched, log>>

Next ==
    \/ StartRun
    \/ GetUrlsFromArchive
    \/ GetUrlsFromTag
    \/ GetUrlsFromSitemap
    \/ GetStoryUrls
    \/ BeginScrape
    \/ ScrapeStory
    \/ LoopTail
    \/ OpenIndex
    \/ DumpIndex
    \/ OpenMetadata
    \/ DumpMetadata
    \/ IndexStats
    \/ MainReturn
    \/ Interrupt

Spec == Init /\ [][Next]_vars

\* scrape_story called with any retries >= 1
InitRetries == InitWith(1..MaxRetries)
SpecRetries == InitRetries /\ [][Next]_vars

\* the steps the program takes by itself: every call it makes (a request
\* with its timeout, a sleep, a write) returns or raises
Proceed ==
    \/ StartRun
    \/ GetUrlsFromArchive
    \/ GetUrlsFromTag
    \/ GetUrlsFromSitemap
    \/ GetStoryUrls
    \/ BeginScrape
    \/ ScrapeStory
    \/ LoopTail
    \/ OpenIndex
    \/ DumpIndex
    \/ OpenMetadata
    \/ DumpMetadata
    \/ IndexStats
    \/ MainReturn

\* a run whose calls all return: session.get has a timeout, time.sleep ends
SpecLive == Init /\ [][Next]_vars /\ WF_vars(Proceed)

(***************************************************************************)
(* generate_wordcloud.py: analyze_word_frequency.  A size is held in       *)
(* tenths (30 is 3.0), which is what round(size, 1) keeps of it.           *)
(***************************************************************************)
\* the members of STOP_WORDS among the words of the texts below
STOP_WORDS == {"the", "now", "one", "two", "three", "four", "five"}

\* 52 distinct words, none of them a stop word
ManyWords ==
    << "aaa", "aab", "aac", "aad", "aae", "aaf", "aag", "aah",
       "aai", "aaj", "aak", "aal", "aam", "aan", "aao", "aap",
       "aaq", "aar", "aas", "aat", "aau", "aav", "aaw", "aax",
       "aay", "aaz", "aba", "abb", "abc", "abd", "abe", "abf",
       "abg", "abh", "abi", "abj", "abk", "abl", "abm", "abn",
       "abo", "abp", "abq", "abr", "abs", "abt", "abu", "abv",
       "abw", "abx", "aby", "abz" >>

\* the tokens that match [a-z]{3,} as a whole
LowerCaseWords ==
    {"norms", "rules", "the", "now", "protocols", "ok"} \cup
    {ManyWords[k] : k \in 1..Len(ManyWords)}

\* re.findall(r'\b[a-z]{3,}\b', text), for a text in which no two tokens
\* of letters are adjacent
FindWords(text) ==
    SelectSeq(text, LAMBDA t : t \in LowerCaseWords /\ Len(t) >= 3)

\* word_counts.update(words): each known word gains its number of
\* occurrences, and the new words follow in order of first occurrence
CounterUpdate(counts, words) ==
    LET occurrences(w) == Cardinality({k \in 1..Len(words) : words[k] = w})
        known == {counts[k].word : k \in 1..Len(counts)}
        firsts == {k \in 1..Len(words) :
                      /\ words[k] \notin known
                      /\ \A j \in 1..(k - 1) : words[j] # words[k]}
        nth(r) == CHOOSE k \in firsts :
                      Cardinality({j \in firsts : j < k}) = r - 1
    IN  [k \in 1..Len(counts) |->
            [counts[k] EXCEPT !.count = @ + occurrences(counts[k].word)]]
        \o [r \in 1..Cardinality(firsts) |->
               [word |-> words[nth(r)], count |-> occurrences(words[nth(r)])]]

RECURSIVE WordCounts(_, _)
\* the loop over the stories: title twice, then the paragraphs
WordCounts(counts, sts) ==
    IF sts = <<>> THEN counts
    ELSE LET story == Head(sts)
             text == Join(<<" ">>, story.content)
             title_text == story.title \o <<" ">> \o story.title
             words == FindWords(Lower(title_text \o <<" ">> \o text))
             filtered_words == SelectSeq(words, LAMBDA w : w \notin STOP_WORDS)
         IN  WordCounts(CounterUpdate(counts, filtered_words), Tail(sts))

\* Counter.most_common: by count, largest first, equal counts in order of
\* first occurrence; an entry's place is one more than the number of
\* entries that sort before it
SortByCount(items) ==
    LET n == Len(items)
        rank(k) == Cardinality({j \in 1..n : items[j].count > items[k].count})
                   + Cardinality({j \in 1..(k - 1) :
                                     items[j].count = items[k].count}) + 1
    IN  [r \in 1..n |-> items[CHOOSE k \in 1..n : rank(k) = r]]

TopWords == 50

\* round(num / den, 1) in tenths; a tie (which takes max_count - min_count
\* >= 16) goes to the even tenth
Round1(num, den) ==
    LET q == (10 * num) \div den
        r == (10 * num) % den
    IN  IF 2 * r < den THEN q
        ELSE IF 2 * r > den THEN q + 1
        ELSE IF q % 2 = 0 THEN q ELSE q + 1

analyze_word_frequency(sts) ==
    LET top_words == Take(SortByCount(WordCounts(<<>>, sts)), TopWords)
        max_count == IF top_words # <<>> THEN top_words[1].count ELSE 1
        min_count == IF Len(top_words) > 1
                     THEN top_words[Len(top_words)].count ELSE 1
    IN  [k \in 1..Len(top_words) |->
            [word |-> top_words[k].word,
             count |-> top_words[k].count,
             size |-> IF max_count = min_count THEN 30
                      ELSE Round1((max_count - min_count)
                                      + 4 * (top_words[k].count - min_count),
                                  max_count - min_count)]]

(***************************************************************************)
(* The helper functions called on their own, on arguments of bounded size. *)
(***************************************************************************)
MaxHrefLen == 3
MaxWords == 5
MaxParagraphs == 2
MaxStories == 2
MaxDistinctTags == 6

\* the sequences over S of length at most n
SeqsUpTo(S, n) == UNION {[1..k -> S] : k \in 0..n}

\* href strings: any mix of an origin, the article infix, a slug and the
\* delimiters
HrefTokens == {base_url, "/p/", "a", "?", "#"}
Hrefs == SeqsUpTo(HrefTokens, MaxHrefLen)

\* paragraph texts: the three texts of the classifier's examples, texts
\* with runs of whitespace, and words joined by single spaces; "de", "sign"
\* is the one word "design"
TextSubscribeNow == ParaPromo
TextOk == <<"ok">>
TextGenuine ==
    <<"This", " ", "is", " ", "a", " ", "genuinely", " ", "long", " ",
      "sentence", " ", "about", " ", "protocols", " ", "and", " ", "norms.">>
TextOneTwoThree == <<"one", " ", "two", " ", "three">>
TextFourFive == <<"four", " ", "five">>
TextSpaced ==
    <<" ", "protocols", " ", "\t", "protocols", "\n", "a", " ", "a", " ", "a", "\n">>
ParagraphWords ==
    { <<"protocols">>, <<"a">>, <<"Sign">>, <<"in">>, <<"de", "sign">> }
ParagraphTexts ==
    {TextSubscribeNow, TextOk, TextGenuine, TextOneTwoThree, TextFourFive,
     TextSpaced} \cup
    {Join(<<" ">>, ws) : ws \in SeqsUpTo(ParagraphWords, MaxWords)}

\* content lists of articles
ContentParagraphs ==
    {TextOneTwoThree, TextFourFive, TextSpaced, TextGenuine, <<>>, <<" ">>}
Contents == SeqsUpTo(ContentParagraphs, MaxParagraphs)

\* an article with the given content
ArticleWith(content) ==
    [title |-> <<"Norms">>, subtitle |-> <<>>, author |-> <<"Unknown">>,
     url |-> <<base_url, "/p/", "a">>, date |-> <<>>, tags |-> <<>>,
     content |-> content]

\* records of search-index.json, as analyze_word_frequency reads them
CloudTitles == { <<"Norms">>, <<"The", " ", "rules">>, <<"ok">> }
CloudContents ==
    { <<>>, << <<"norms">> >>, << <<"rules", " ", "ok">>, <<"norms", ".">> >> }
\* the paragraph made of n times the same word
Repeat(word, n) == [k \in 1..n |-> <<word>>]

\* one record whose words have the counts 10, 10 and 5
CountsTenTenFive ==
    << [title |-> <<>>,
        content |-> << Join(<<" ">>, Repeat("norms", 10) \o Repeat("rules", 10)
                                         \o Repeat("protocols", 5)) >>] >>

\* one record with n distinct words, the first of them in its title too
WideStories(n) ==
    << [title |-> <<ManyWords[1]>>,
        content |-> << Join(<<" ">>, [k \in 1..n |-> <<ManyWords[k]>>]) >>] >>

CloudStories ==
    SeqsUpTo([title : CloudTitles, content : CloudContents], MaxStories)
    \cup {CountsTenTenFive}
    \cup {WideStories(n) : n \in (TopWords - 1)..Len(ManyWords)}

\* tag elements: texts[k] occurs times[k] times among the elements matched,
\* its second occurrence after the first occurrences of all texts
TagElems(texts, times) ==
    LET ks == [k \in 1..Len(texts) |-> k]
        first == SelectSeq(ks, LAMBDA k : times[k] >= 1)
        second == SelectSeq(ks, LAMBDA k : times[k] = 2)
    IN  [j \in 1..Len(first) |-> texts[first[j]]] \o
        [j \in 1..Len(second) |-> texts[second[j]]]

\* texts of tag elements: tags, one text that strips to a tag already
\* listed, one of 49 and one of 50 characters, an empty one and a blank one
TagTexts ==
    << <<"stories">>, <<" ", "stories", "\n">>, <<"essays">>, <<>>,
       <<"0123456789012345678901234567890123456789012345678">>,
       <<"01234567890123456789012345678901234567890123456789">>,
       <<"fiction">>, <<"norms">>, <<"rules">>, <<" ">>, <<"protocols">> >>
TagElemLists ==
    {TagElems(SubSeq(TagTexts, 1, MaxDistinctTags), times) :
        times \in [1..MaxDistinctTags -> 0..2]}
    \cup {TagElems(TagTexts, [k \in 1..Len(TagTexts) |-> t]) : t \in 1..2}

\* a page holding the given tag elements
PageWithTags(elems) == [NoSoup EXCEPT !.tag_elems = elems]

\* what the selectors of _extract_title and _extract_subtitle find: nothing,
\* or a first element with this text
HeadingElems == { <<>>, << <<>> >>, << <<" ", "\n">> >>, << <<" ", "Norms", "\n">> >>,
                  << <<"On", " ", "rules">> >> }
TitleElemLists == [1..TitleSelectors("scrape_all") -> HeadingElems]
SubtitleElemLists == [1..SubtitleSelectors("scrape_all") -> HeadingElems]
PageWithTitle(elems) == [NoSoup EXCEPT !.title_elems = elems]
PageWithSubtitle(elems) == [NoSoup EXCEPT !.subtitle_elems = elems]

Helpers ==
    {"_make_absolute_url", "build_index", "_is_valid_paragraph",
     "analyze_word_frequency", "_extract_tags", "_extract_title",
     "_extract_subtitle"}

\* the arguments a helper is called on
HelperInputs(f) ==
    CASE f = "_make_absolute_url" -> Hrefs
      [] f = "build_index" -> Contents
      [] f = "_is_valid_paragraph" -> ParagraphTexts
      [] f = "analyze_word_frequency" -> CloudStories
      [] f = "_extract_tags" -> TagElemLists
      [] f = "_extract_title" -> TitleElemLists
      [] f = "_extract_subtitle" -> SubtitleElemLists

\* the classes whose method is called: the selector lists of the two differ
HelperScripts(f) ==
    IF f \in {"_extract_title", "_extract_subtitle"} THEN Scripts
    ELSE {"scrape_all"}

\* a helper is about to be called; no run of a scraper is under way
InitHelpers ==
    /\ fn \in Helpers
    /\ arg \in HelperInputs(fn)
    /\ result = <<>>
    /\ pc = "helper_call"
    /\ script \in HelperScripts(fn)
    /\ dry_run = FALSE
    /\ limit = <<>>
    /\ retries = DefaultRetries
    /\ fetches = 0
    /\ urls_from_archive = {}
    /\ urls_from_tag = {}
    /\ urls_from_sitemap = {}
    /\ all_urls = {}
    /\ story_urls = <<>>
    /\ i = 0
    /\ attempt = 0
    /\ soup = NoSoup
    /\ story_data = <<>>
    /\ stories = <<>>
    /\ search_file = PreviousFile
    /\ metadata_file = PreviousFile
    /\ exit_code = <<>>
    /\ outcome = "running"
    /\ requests = <<>>
    /\ failed_sources = {}
    /\ fetched = <<>>
    /\ log = <<>>
    /\ reported = <<>>

\* what no helper call changes
run == <<args, fetches, urls_from_archive, urls_from_tag, urls_from_sitemap,
         all_urls, story_urls, i, attempt, soup, story_data, stories, search_file,
         metadata_file, exit_code, outcome, requests, failed_sources, fetched,
         log, reported>>

\* full_url = self._make_absolute_url(href)
MakeAbsoluteUrl ==
    /\ pc = "helper_call"
    /\ fn = "_make_absolute_url"
    /\ result' = _make_absolute_url(arg)
    /\ pc' = "helper_returned"
    /\ UNCHANGED <<fn, arg, run>>

\* the same function applied to the URL it returned
MakeAbsoluteUrlAgain ==
    /\ pc = "helper_returned"
    /\ fn = "_make_absolute_url"
    /\ result' = _make_absolute_url(result)
    /\ pc' = "helper_returned_again"
    /\ UNCHANGED <<fn, arg, run>>

\* build_index([story]): the metadata records of one article
BuildMetadata ==
    /\ pc = "helper_call"
    /\ fn = "build_index"
    /\ result' = Metadata(<<ArticleWith(arg)>>)
    /\ pc' = "helper_returned"
    /\ UNCHANGED <<fn, arg, run>>

\* self._is_valid_paragraph(text)
IsValidParagraph ==
    /\ pc = "helper_call"
    /\ fn = "_is_valid_paragraph"
    /\ result' = _is_valid_paragraph(arg)
    /\ pc' = "helper_returned"
    /\ UNCHANGED <<fn, arg, run>>

\* word_cloud_data = analyze_word_frequency(stories)
AnalyzeWordFrequency ==
    /\ pc = "helper_call"
    /\ fn = "analyze_word_frequency"
    /\ result' = analyze_word_frequency(arg)
    /\ pc' = "helper_returned"
    /\ UNCHANGED <<fn, arg, run>>

\* tags = self._extract_tags(soup)
ExtractTags ==
    /\ pc = "helper_call"
    /\ fn = "_extract_tags"
    /\ result' = _extract_tags(PageWithTags(arg))
    /\ pc' = "helper_returned"
    /\ UNCHANGED <<fn, arg, run>>

\* title = self._extract_title(soup)
ExtractTitle ==
    /\ pc = "helper_call"
    /\ fn = "_extract_title"
    /\ result' = _extract_title(script, PageWithTitle(arg))
    /\ pc' = "helper_returned"
    /\ UNCHANGED <<fn, arg, run>>

\* subtitle = self._extract_subtitle(soup)
ExtractSubtitle ==
    /\ pc = "helper_call"
    /\ fn = "_extract_subtitle"
    /\ result' = _extract_subtitle(script, PageWithSubtitle(arg))
    /\ pc' = "helper_returned"
    /\ UNCHANGED <<fn, arg, run>>

NextHelpers ==
    \/ MakeAbsoluteUrl
    \/ MakeAbsoluteUrlAgain
    \/ BuildMetadata
    \/ IsValidParagraph
    \/ AnalyzeWordFrequency
    \/ ExtractTags
    \/ ExtractTitle
    \/ ExtractSubtitle

SpecHelpers == InitHelpers /\ [][NextHelpers]_vars

(***************************************************************************)
(* Properties.                                                             *)
(***************************************************************************)
IsGet(c) == c.op = "get"
IsBackoff(c) == c.op = "sleep" /\ c.secs = BackoffDelay
IsPacing(c) == c.op = "sleep" /\ c.secs = PacingDelay

\* the calls recorded after the last session.get
AfterLastGet(l) ==
    IF \E k \in 1..Len(l) : IsGet(l[k])
    THEN SubSeq(l, (CHOOSE k \in 1..Len(l) :
                       IsGet(l[k]) /\ \A j \in (k + 1)..Len(l) : ~IsGet(l[j])) + 1,
                Len(l))
    ELSE l

\* the positions of the run inside build_index
BuildPcs ==
    {"build_index", "dump_index", "open_metadata", "dump_metadata", "index_stats"}

\* C1: the URLs are handed to scrape_story in lexicographic order of the
\* canonical URL: of any two URLs fetched, the smaller is fetched first.
C1_LexicographicVisit ==
    \A a, b \in 1..Len(fetched) : a < b => StrLess(fetched[a], fetched[b])

\* C2: scrape_story(url, retries = n) makes at most n fetches; every fetch
\* but the last one failed and was followed by one backoff wait, no wait
\* follows the last fetch; a page with title and content fetched on attempt
\* k returns the article after k - 1 waits, and n failures return None after
\* n fetches and n - 1 waits.
C2_RetryContract ==
    /\ pc = "scrape_story" => attempt < retries
    /\ pc = "story_returned" =>
          LET gets == SelectSeq(log, IsGet)
              waits == SelectSeq(log, IsBackoff)
              g == Len(gets)
          IN  /\ g >= 1
              /\ g <= retries
              /\ Len(waits) = g - 1
              /\ Len(log) = 2 * g - 1
              /\ \A k \in 1..Len(log) : IsGet(log[k]) <=> k % 2 = 1
              /\ \A k \in 1..(g - 1) : ~ gets[k].ok
              /\ (gets[g].ok /\ soup = ValidSoup) => story_data # <<>>
              /\ story_data # <<>> => gets[g].ok
              /\ ~ gets[g].ok => (g = retries /\ story_data = <<>>)

\* C2 witness: with retries = 3, two failed fetches, then a page that
\* yields an article
C2_FailFailSucceed ==
    /\ pc = "story_returned"
    /\ retries = 3
    /\ Len(log) = 5
    /\ ~ log[1].ok
    /\ ~ log[3].ok
    /\ log[5].ok
    /\ IsBackoff(log[2])
    /\ IsBackoff(log[4])
    /\ story_data # <<>>

\* C3: when the loop is about to fetch the next URL, exactly one pacing
\* delay has been waited since the last fetch of the previous URL, whatever
\* that URL's outcome; nothing is waited after the last URL.
C3_PacingBetweenUrls ==
    /\ (pc = "scrape_story" /\ attempt = 0 /\ i > 1) =>
          AfterLastGet(log) = <<SleepCall(PacingDelay)>>
    /\ (pc = "story_returned") => AfterLastGet(log) = <<>>
    /\ (pc \in BuildPcs) => AfterLastGet(log) = <<>>

\* C3 witness: the second URL is about to be fetched after the first one
\* failed all its attempts
C3_PacedAfterFailure ==
    /\ pc = "scrape_story"
    /\ attempt = 0
    /\ i = 2
    /\ stories = <<>>
    /\ Len(SelectSeq(log, IsGet)) = DefaultRetries
    /\ Len(SelectSeq(log, IsPacing)) = 1

UrlA == <<base_url, "/p/", "a">>
UrlB == <<base_url, "/p/", "b">>
UrlAbout == <<base_url, "/about">>

\* discovery has made all its requests
DiscoveryDone == Len(requests) = IF script = "scrape_all" THEN 3 ELSE 1

\* C4: get_all_story_urls queries the three sources whatever the earlier
\* ones answered and returns the union of their URL sets, a failed source
\* contributing the empty set.
C4_UnionOfSources ==
    /\ pc = "get_tag" => all_urls = urls_from_archive
    /\ pc = "get_sitemap" => all_urls = urls_from_archive \cup urls_from_tag
    /\ (pc = "discovered" /\ script = "scrape_all") =>
          /\ requests = <<archive_url, stories_tag_url, sitemap_url>>
          /\ all_urls = urls_from_archive \cup urls_from_tag \cup urls_from_sitemap
          /\ archive_url \in failed_sources => urls_from_archive = {}
          /\ stories_tag_url \in failed_sources => urls_from_tag = {}
          /\ sitemap_url \in failed_sources => urls_from_sitemap = {}

\* C4 witness: tag page {A, B}, archive {B, C}, sitemap failed: {A, B, C}
C4_TwoSourcesAndAFailure ==
    /\ pc = "discovered"
    /\ urls_from_tag = {UrlA, UrlB}
    /\ urls_from_archive = {UrlB, UrlAbout}
    /\ failed_sources = {sitemap_url}
    /\ all_urls = {UrlA, UrlB, UrlAbout}

\* C5: every discovered URL is canonical: it holds no '?' and no '#', so no
\* two members differ only by query string or fragment.
C5_DiscoveredCanonical ==
    pc = "discovered" =>
        /\ \A u \in all_urls : ~ Contains(u, "?") /\ ~ Contains(u, "#")
        /\ \A u, v \in all_urls :
              SplitFirst(SplitFirst(u, "?"), "#") = SplitFirst(SplitFirst(v, "?"), "#")
                  => u = v

\* C6: the search file and the metadata file hold one record per article,
\* in the order of the list, the record at position k (counted from 0)
\* having id k and the fields of the k-th article.
C6_IdsByPosition ==
    /\ search_file.state = "written" =>
          /\ Len(search_file.records) = Len(stories)
          /\ \A k \in 1..Len(stories) :
                /\ search_file.records[k].id = k - 1
                /\ search_file.records[k].title = stories[k].title
                /\ search_file.records[k].subtitle = stories[k].subtitle
                /\ search_file.records[k].author = stories[k].author
                /\ search_file.records[k].content = stories[k].content
                /\ search_file.records[k].tags = stories[k].tags
    /\ metadata_file.state = "written" =>
          /\ Len(metadata_file.records) = Len(stories)
          /\ \A k \in 1..Len(stories) :
                /\ metadata_file.records[k].id = k - 1
                /\ metadata_file.records[k].title = stories[k].title
                /\ metadata_file.records[k].url = stories[k].url
                /\ metadata_file.records[k].date = stories[k].date
                /\ metadata_file.records[k].author = stories[k].author
                /\ metadata_file.records[k].tags = stories[k].tags

\* C6 witness: both files written from a list of three articles
C6_ThreeRecords ==
    /\ search_file.state = "written"
    /\ metadata_file.state = "written"
    /\ Len(stories) = 3
    /\ metadata_file.records[3].id = 2
    /\ metadata_file.records[3].url = stories[3].url

\* C7: every article of the list, the value scrape_story returns and every
\* record on disk has a non-empty title and (where it has one) a non-empty
\* content; a page lacking either yields None.
C7_OnlyValidArticles ==
    /\ \A k \in 1..Len(stories) :
          stories[k].title # <<>> /\ stories[k].content # <<>>
    /\ story_data # <<>> =>
          story_data[1].title # <<>> /\ story_data[1].content # <<>>
    /\ \A k \in 1..Len(search_file.records) :
          /\ search_file.records[k].title # <<>>
          /\ search_file.records[k].content # <<>>
    /\ \A k \in 1..Len(metadata_file.records) :
          /\ metadata_file.records[k].title # <<>>
          /\ metadata_file.records[k].wordCount > 0
    /\ (pc = "story_returned" /\ soup \in {NoTitleSoup, NoContentSoup}) =>
          story_data = <<>>

\* C7 witness: a page without title was fetched and dropped while the list
\* already holds an article
C7_InvalidPageDropped ==
    /\ pc = "story_returned"
    /\ soup = NoTitleSoup
    /\ story_data = <<>>
    /\ Len(stories) = 1

\* C8: a URL that yields no article (all fetches failed, or the page lacks
\* title or content) ends neither the loop nor the run: the step after it
\* goes on to the next URL or to build_index, and build_index is entered
\* with every URL of the list fetched.
C8_FailuresDoNotHalt ==
    /\ [](pc \in BuildPcs => fetched = story_urls)
    /\ [](pc \in {"scrape_story", "story_returned"} =>
             /\ i <= Len(story_urls)
             /\ fetched = SubSeq(story_urls, 1, Len(fetched))
             /\ Len(fetched) \in {i - 1, i})
    /\ [][(pc = "story_returned" /\ story_data = <<>> /\ outcome' # "interrupted")
             => /\ pc' = IF i < Len(story_urls) THEN "scrape_story"
                         ELSE "build_index"
                /\ outcome' = "running"]_vars
    /\ [][(pc = "scrape_story" /\ outcome' # "interrupted")
             => /\ pc' \in {"scrape_story", "story_returned"}
                /\ outcome' = "running"]_vars

\* C8 witness: build_index is reached although the first URL gave no
\* article, and the second URL was fetched after it
C8_AggregatesAfterFailure ==
    /\ pc = "build_index"
    /\ Len(story_urls) = 2
    /\ fetched = story_urls
    /\ Len(stories) = 1
    /\ stories[1].url = story_urls[2]

\* C9: when discovery ends with no URL, no story is fetched, build_index is
\* not entered, the files stay as they were, and the run ends with exit
\* code 1 through the "no stories" branch of main, not through an exception.
C9_EmptyDiscoveryFails ==
    (DiscoveryDone /\ all_urls = {}) =>
        /\ pc \in {"discovered", "main_return", "exit"}
        /\ fetched = <<>>
        /\ log = <<>>
        /\ stories = <<>>
        /\ search_file = PreviousFile
        /\ metadata_file = PreviousFile
        /\ outcome \in {"running", "no_stories", "interrupted"}
        /\ pc = "exit" => exit_code = <<1>>
        /\ pc # "exit" => exit_code = <<>>

\* C9 witness: all three sources failed and the run ended
C9_NoStoriesExit ==
    /\ script = "scrape_all"
    /\ DiscoveryDone
    /\ all_urls = {}
    /\ pc = "exit"
    /\ outcome = "no_stories"
    /\ exit_code = <<1>>

\* C10: after an interruption or a failed write, the two files are either
\* both those of the previous run or both those of this run.
C10_AllOrNothing ==
    (pc = "exit" /\ outcome \in {"interrupted", "fatal"}) =>
        \/ search_file.state = "previous" /\ metadata_file.state = "previous"
        \/ search_file.state = "written" /\ metadata_file.state = "written"

\* C11: in a dry run (--dry-run given) no state has a write to the search
\* file or to the metadata file: both stay what the previous run left.
C11_DryRunWritesNothing ==
    dry_run => (search_file = PreviousFile /\ metadata_file = PreviousFile)

\* C12: under a cap n >= 0 (--limit n) at most n URLs are handed to
\* scrape_story and at most n articles and records are produced.
C12_AtMostLimit ==
    limit # <<>> =>
        /\ Len(fetched) <= limit[1]
        /\ Len(stories) <= limit[1]
        /\ Len(search_file.records) <= limit[1]
        /\ Len(metadata_file.records) <= limit[1]

\* both files hold the records of the article list
BothWritten ==
    /\ search_file = WrittenFile(SearchIndex(stories))
    /\ metadata_file = WrittenFile(Metadata(stories))

\* C13: the process exits with code 0 only if at least one article was
\* produced and both files were written, and a run that main() brings to its
\* end (it is not interrupted from the keyboard) with at least one article
\* and both files written exits with code 0; a run with no article (nothing
\* discovered, or every URL failed) exits with code 1.
C13_ExitCodeContract ==
    pc = "exit" =>
        /\ exit_code \in {<<0>>, <<1>>}
        /\ exit_code = <<0>> => (Len(stories) >= 1 /\ BothWritten)
        /\ (Len(stories) >= 1 /\ BothWritten /\ outcome # "interrupted")
               => exit_code = <<0>>
        /\ stories = <<>> => exit_code = <<1>>

\* C13 witness: scrape_all.py fetched two URLs, both failed, the (empty)
\* files were written and main exited with code 1
C13_AllFailedExitOne ==
    /\ pc = "exit"
    /\ script = "scrape_all"
    /\ Len(fetched) = 2
    /\ stories = <<>>
    /\ BothWritten
    /\ outcome = "no_stories"
    /\ exit_code = <<1>>

\* the per-URL result lines of the loop, in order
ResultLines ==
    SelectSeq(reported, LAMBDA l : l.msg \in {"Successfully scraped:",
                                             "Failed to scrape"})

\* the processed URLs that yielded an article, in processing order
SucceededUrls ==
    LET ok == SelectSeq([j \in 1..Len(ResultLines) |-> j],
                        LAMBDA j : ResultLines[j].msg = "Successfully scraped:")
    IN  [k \in 1..Len(ok) |-> fetched[ok[k]]]

\* the loop of scrape_all has processed its last URL
LoopDone == Len(Lines("Successfully scraped")) = 1

\* C14: once the loop is done, every URL of the list was processed, the
\* articles are those of the URLs that yielded one, in processing order,
\* the number of failures reported is the number of processed URLs minus
\* the number k of articles, and the files written hold k records with ids
\* 0..k-1 in that order, the metadata record k-1 carrying the URL of the
\* k-th success.
C14_CountsAndIds ==
    LoopDone =>
        /\ fetched = story_urls
        /\ Len(ResultLines) = Len(fetched)
        /\ [k \in 1..Len(stories) |-> stories[k].url] = SucceededUrls
        /\ Len(Lines("Failed to scrape")) = Len(fetched) - Len(stories)
        /\ Lines("Successfully scraped")[1].n = Len(stories)
        /\ search_file.state = "written" =>
              /\ Len(search_file.records) = Len(stories)
              /\ \A k \in 1..Len(stories) : search_file.records[k].id = k - 1
        /\ metadata_file.state = "written" =>
              /\ Len(metadata_file.records) = Len(stories)
              /\ \A k \in 1..Len(stories) :
                    /\ metadata_file.records[k].id = k - 1
                    /\ metadata_file.records[k].url = SucceededUrls[k]

\* C14 witness: two URLs, the first answered with a page that was dropped
\* (no fetch was exhausted), the second with a valid article: one record
\* pair with id 0 and one failure
C14_OneValidOneInvalid ==
    /\ pc = "exit"
    /\ outcome = "success"
    /\ Len(fetched) = 2
    /\ Lines("Failed after") = <<>>
    /\ Len(Lines("Failed to scrape")) = 1
    /\ ResultLines[1].msg = "Failed to scrape"
    /\ Len(search_file.records) = 1
    /\ Len(metadata_file.records) = 1
    /\ search_file.records[1].id = 0
    /\ metadata_file.records[1].id = 0
    /\ metadata_file.records[1].url = fetched[2]

\* C15: every discovered URL holds the article infix '/p/' (the URLs are
\* canonical forms: query string and fragment removed), whatever hrefs the
\* listing pages carry.
C15_ArticleInfix ==
    pc = "discovered" => \A u \in all_urls : Contains(u, "/p/")

\* a helper has returned
Returned(f) == fn = f /\ pc = "helper_returned"

\* C16: _make_absolute_url applied to the URL it returned gives that URL
\* again, for absolute and relative hrefs alike, and the URL it returns holds
\* no '?' and no '#'.
C16_CanonicalizeIdempotent ==
    /\ Returned("_make_absolute_url") =>
          /\ ~ Contains(result, "?")
          /\ ~ Contains(result, "#")
    /\ (fn = "_make_absolute_url" /\ pc = "helper_returned_again") =>
          /\ result = _make_absolute_url(arg)
          /\ ~ Contains(result, "?")
          /\ ~ Contains(result, "#")

\* C16 witness: an absolute href with a fragment and a query string,
\* canonicalised twice
C16_AbsoluteTwice ==
    /\ fn = "_make_absolute_url"
    /\ pc = "helper_returned_again"
    /\ arg = <<base_url, "#", "?">>
    /\ result = <<base_url>>

RECURSIVE CountTokens(_, _)
\* the number of maximal runs of non-whitespace in a text, read left to right
CountTokens(text, inWord) ==
    IF text = <<>> THEN 0
    ELSE IF Head(text) \in Whitespace THEN CountTokens(Tail(text), FALSE)
    ELSE (IF inWord THEN 0 ELSE 1) + CountTokens(Tail(text), TRUE)

RECURSIVE TokensIn(_)
\* the whitespace-delimited tokens of all paragraphs of a content list
TokensIn(content) ==
    IF content = <<>> THEN 0
    ELSE CountTokens(Head(content), FALSE) + TokensIn(Tail(content))

\* C17: the wordCount of an article's metadata record is the sum over its
\* paragraphs of their whitespace-delimited tokens, is at least 0, and is 5
\* for the content ["one two three", "four five"].
C17_WordCountIsTokenSum ==
    Returned("build_index") =>
        /\ Len(result) = 1
        /\ result[1].wordCount = TokensIn(arg)
        /\ result[1].wordCount >= 0
        /\ arg = <<TextOneTwoThree, TextFourFive>> => result[1].wordCount = 5

\* C17 witness: the record of the article ["one two three", "four five"]
C17_OneTwoThreeFourFive ==
    /\ Returned("build_index")
    /\ arg = <<TextOneTwoThree, TextFourFive>>
    /\ result[1].wordCount = 5

\* C18: when all entries analyze_word_frequency returns share one count (a
\* single entry included, whatever its count), every entry has size 3.
C18_EqualCountsSizeThree ==
    (/\ Returned("analyze_word_frequency")
     /\ result # <<>>
     /\ \A j, k \in 1..Len(result) : result[j].count = result[k].count)
        => \A k \in 1..Len(result) : result[k].size = 30

\* C19: _is_valid_paragraph returns true exactly for a text of at least 20
\* characters that holds none of the call-to-action phrases (compared in
\* lower case, as a substring) and has at least 5 whitespace-delimited
\* tokens; it is false for "Subscribe now to get full access" and for "ok"
\* and true for "This is a genuinely long sentence about protocols and
\* norms.".
C19_ValidParagraphRule ==
    Returned("_is_valid_paragraph") =>
        /\ result <=>
              /\ TextLen(arg) >= 20
              /\ \A phrase \in boilerplate_phrases : ~ IsInfix(phrase, Lower(arg))
              /\ CountTokens(arg, FALSE) >= 5
        /\ arg = TextSubscribeNow => result = FALSE
        /\ arg = TextOk => result = FALSE
        /\ arg = TextGenuine => result = TRUE

\* C19 witness: a long text of five words that is rejected for the phrase
\* "sign in", which it holds in capitals
C19_SignInRejected ==
    /\ Returned("_is_valid_paragraph")
    /\ arg = Join(<<" ">>, << <<"protocols">>, <<"Sign">>, <<"in">>,
                             <<"protocols">>, <<"protocols">> >>)
    /\ result = FALSE

\* C20: a run that main() brings to its end, in success or in failure (the
\* run that discovers no URL included), has reported its counts when the
\* process exits: the number of successes and the total, the failures being
\* the per-URL failure lines between them.
C20_SummaryAtExit ==
    (pc = "exit" /\ outcome # "interrupted") =>
        /\ Lines("Found") # <<>>
        /\ Lines("Successfully scraped") # <<>>
        /\ Len(Lines("Failed to scrape")) =
              Lines("Found")[1].n - Lines("Successfully scraped")[1].n

\* the stripped texts of a list of elements
Stripped(elems) == [k \in 1..Len(elems) |-> Strip(elems[k])]

\* the first position of text in a list of texts (0 if it is not there)
FirstIndex(texts, text) ==
    IF \E k \in 1..Len(texts) : texts[k] = text
    THEN CHOOSE k \in 1..Len(texts) :
             texts[k] = text /\ \A j \in 1..(k - 1) : texts[j] # text
    ELSE 0

\* C21: the list _extract_tags returns has at most 5 entries, no entry
\* twice, every entry non-empty, shorter than 50 characters and the text of
\* a tag element of the document, in the order of first appearance there.
C21_TagsBoundedDistinctOrdered ==
    Returned("_extract_tags") =>
        /\ Len(result) <= 5
        /\ \A a, b \in 1..Len(result) : a # b => result[a] # result[b]
        /\ \A a \in 1..Len(result) :
              /\ result[a] # <<>>
              /\ TextLen(result[a]) < 50
              /\ FirstIndex(Stripped(arg), result[a]) > 0
        /\ \A a, b \in 1..Len(result) :
              a < b => FirstIndex(Stripped(arg), result[a])
                           < FirstIndex(Stripped(arg), result[b])

\* C21 witness: a document with six distinct short tags, a repeated tag, a
\* tag of 50 characters and empty tag elements: the first five are returned
C21_SixTagsCapped ==
    /\ Returned("_extract_tags")
    /\ arg = TagElems(TagTexts, [k \in 1..Len(TagTexts) |-> 2])
    /\ result = << <<"stories">>, <<"essays">>,
                   <<"0123456789012345678901234567890123456789012345678">>,
                   <<"fiction">>, <<"norms">> >>

\* the selectors of the ordered list that match an element with text
NonEmptyRules(elems, n) ==
    {k \in 1..n : elems[k] # <<>> /\ Strip(elems[k][1]) # <<>>}

\* the value the claim expects of an ordered fallback: the text of the
\* earliest rule that matches an element with non-empty text
EarliestNonEmpty(elems, n) ==
    Strip(elems[CHOOSE k \in NonEmptyRules(elems, n) :
                    \A j \in NonEmptyRules(elems, n) : k <= j][1])

\* C26: when a selector of _extract_title (of _extract_subtitle) matches an
\* element with non-empty text, the value returned is non-empty and is the
\* text of the earliest such selector.
C26_EarliestNonEmptyRule ==
    /\ (Returned("_extract_title")
            /\ NonEmptyRules(arg, TitleSelectors(script)) # {}) =>
          /\ result # <<>>
          /\ result = EarliestNonEmpty(arg, TitleSelectors(script))
    /\ (Returned("_extract_subtitle")
            /\ NonEmptyRules(arg, SubtitleSelectors(script)) # {}) =>
          /\ result # <<>>
          /\ result = EarliestNonEmpty(arg, SubtitleSelectors(script))

\* C27: analyze_word_frequency returns at most 50 entries, in non-increasing
\* order of count, each with a count of at least 1 and a size within [1, 5];
\* when the largest and the smallest count returned differ, the entries with
\* the largest count have size 5 and those with the smallest have size 1;
\* counts 10, 10, 5 give sizes 5.0, 5.0, 1.0.  (Sizes are held in tenths.)
C27_TopFiftyScaled ==
    Returned("analyze_word_frequency") =>
        LET n == Len(result)
            top(k) == \A j \in 1..n : result[k].count >= result[j].count
            bottom(k) == \A j \in 1..n : result[k].count <= result[j].count
        IN  /\ n <= 50
            /\ \A k \in 1..(n - 1) : result[k].count >= result[k + 1].count
            /\ \A k \in 1..n :
                  /\ result[k].count >= 1
                  /\ result[k].size >= 10
                  /\ result[k].size <= 50
            /\ (\E j, k \in 1..n : result[j].count # result[k].count) =>
                  \A k \in 1..n :
                      /\ top(k) => result[k].size = 50
                      /\ bottom(k) => result[k].size = 10
            /\ [k \in 1..n |-> result[k].count] = <<10, 10, 5>> =>
                  [k \in 1..n |-> result[k].size] = <<50, 50, 10>>

\* C27 witness: 52 distinct words, one of them counted three times: the 50
\* entries returned begin with that word at size 5.0 and end at size 1.0
C27_FiftyOfFiftyTwo ==
    /\ Returned("analyze_word_frequency")
    /\ arg = WideStories(52)
    /\ Len(result) = 50
    /\ result[1].size = 50
    /\ result[50].size = 10

\* C25: when URLs were discovered and every one of them failed, build_index
\* on the empty list returns normally after writing two empty arrays, and
\* the run ends with the zero-articles outcome, not with a crash
C25_EmptyAggregationCompletes ==
    (pc = "exit" /\ BothWritten /\ stories = <<>> /\ story_urls # <<>>) =>
        /\ search_file.records = <<>>
        /\ metadata_file.records = <<>>
        /\ outcome \in {"no_stories", "interrupted"}

\* the page of the response that ended scrape_story yields no article
InvalidPageReturned ==
    /\ pc = "story_returned"
    /\ soup # NoSoup
    /\ story_data = <<>>

\* C24: scrape_story fetches again only after an attempt that raised: when
\* a page was fetched and yields no title or no content, scrape_story
\* returns failure at once: that fetch is the last call made for the URL, no
\* backoff wait follows it, and every earlier fetch of the URL had failed
\* and was followed by its backoff wait.
C24_InvalidPageEndsAttempts ==
    /\ InvalidPageReturned =>
          /\ log[Len(log)] = GetCall(story_urls[i], TRUE)
          /\ Len(log) = 2 * attempt + 1
          /\ \A k \in 1..attempt :
                /\ log[2 * k - 1] = GetCall(story_urls[i], FALSE)
                /\ log[2 * k] = SleepCall(BackoffDelay)
    /\ (pc = "scrape_story" /\ attempt > 0) =>
          /\ log[Len(log)] = SleepCall(BackoffDelay)
          /\ log[Len(log) - 1] = GetCall(story_urls[i], FALSE)

\* C24 witness: with two attempts left, the first fetch returns a page
\* without a title and scrape_story has returned
C24_FirstPageInvalid ==
    /\ InvalidPageReturned
    /\ retries = 3
    /\ attempt = 0
    /\ soup = NoTitleSoup
    /\ log = <<GetCall(story_urls[i], TRUE)>>

\* the three listing sources in the order get_all_story_urls queries them
Sources == <<archive_url, stories_tag_url, sitemap_url>>

\* C28: discovery queries the archive, the tag page and the sitemap once
\* each, in that order, whatever the earlier sources answered: the requests
\* made are always the first sources of that list, all three of them once
\* discovery has returned, and no backoff wait or other call is made
\* meanwhile.
C28_EachSourceOnceInOrder ==
    script = "scrape_all" =>
        /\ requests = SubSeq(Sources, 1, Len(requests))
        /\ pc = "get_archive" => requests = <<>>
        /\ pc = "get_tag" => Len(requests) = 1
        /\ pc = "get_sitemap" => Len(requests) = 2
        /\ pc \in {"get_archive", "get_tag", "get_sitemap", "discovered"} =>
              log = <<>>
        /\ (pc \in {"discovered", "scrape_story", "story_returned", "main_return"}
              \cup BuildPcs) => requests = Sources
        /\ outcome \in {"success", "no_stories", "fatal"} => requests = Sources

\* C28 witness: the archive and the tag page both failed and the sitemap
\* was still queried, third, and answered with URLs
C28_SitemapAfterTwoFailures ==
    /\ script = "scrape_all"
    /\ pc = "discovered"
    /\ requests = Sources
    /\ failed_sources = {archive_url, stories_tag_url}
    /\ all_urls # {}

\* the phase of the run: Idle, Discovering, Fetching, Aggregating, Done
Phase ==
    CASE pc = "main" -> "Idle"
      [] pc \in {"get_archive", "get_tag", "get_sitemap", "get_story_urls",
                 "discovered"} -> "Discovering"
      [] pc \in {"scrape_story", "story_returned"} -> "Fetching"
      [] pc \in BuildPcs -> "Aggregating"
      [] OTHER -> "Done"

\* the phases that can follow a phase in one step
PhaseSteps ==
    {<<"Idle", "Discovering">>, <<"Discovering", "Fetching">>,
     <<"Fetching", "Aggregating">>} \cup
    {<<p, "Done">> : p \in {"Idle", "Discovering", "Fetching", "Aggregating"}}

\* C22: a run goes through Idle, Discovering, Fetching, Aggregating, Done in
\* that order; no article is fetched before discovery has queried all its
\* sources; the URLs of the (possibly capped) list are processed one after
\* the other, each exactly once; build_index is entered once, from the end
\* of the processing of the last URL; nothing is fetched once it is entered.
C22_PhaseOrder ==
    /\ [][Phase' # Phase => <<Phase, Phase'>> \in PhaseSteps]_vars
    /\ [](Phase \in {"Fetching", "Aggregating"} \/ fetched # <<>> =>
             DiscoveryDone)
    /\ [](/\ fetched = SubSeq(story_urls, 1, Len(fetched))
          /\ \A a, b \in 1..Len(story_urls) :
                a # b => story_urls[a] # story_urls[b]
          /\ Len(ResultLines) \in {Len(fetched) - 1, Len(fetched)})
    /\ [][fetched' # fetched =>
             /\ Phase = "Fetching" /\ Phase' = "Fetching"
             /\ fetched' = Append(fetched, story_urls[i])
             /\ Len(ResultLines) = Len(fetched)]_vars
    /\ [][(Phase # "Aggregating" /\ Phase' = "Aggregating") =>
             /\ pc = "story_returned" /\ pc' = "build_index"
             /\ i = Len(story_urls)
             /\ fetched = story_urls
             /\ Len(ResultLines') = Len(story_urls)]_vars
    /\ [][(Phase \in {"Aggregating", "Done"}) =>
             /\ fetched' = fetched
             /\ log' = log
             /\ requests' = requests
             /\ stories' = stories]_vars

\* C22 witness: three URLs discovered, a cap of two, both fetched, the
\* index built from them and the run ended
C22_CappedRunDone ==
    /\ pc = "exit"
    /\ outcome = "success"
    /\ limit = <<2>>
    /\ Cardinality(all_urls) = 3
    /\ DiscoveryDone
    /\ fetched = story_urls
    /\ Len(fetched) = 2
    /\ Len(ResultLines) = 2
    /\ BothWritten

\* C23: every run ends: whatever was discovered and whichever fetches fail,
\* the run reaches its exit, having made at most retries article fetches
\* for each URL it processed, and it processes no more URLs than its list
\* holds.
C23_RunTerminates ==
    /\ <>(pc = "exit")
    /\ [](fetches <= retries * Len(fetched))
    /\ [](Len(fetched) <= Len(story_urls))
    /\ [](pc = "exit" => fetches <= retries * Len(story_urls))

\* C23 witness: three URLs, every fetch of which failed, and the run ended
\* after retries fetches of each
C23_EveryFetchFailed ==
    /\ pc = "exit"
    /\ outcome \in {"no_stories", "fatal"}
    /\ Len(story_urls) = 3
    /\ fetched = story_urls
    /\ fetches = retries * Len(story_urls)

====
